---- MODULE Spec2Model ----
(***************************************************************************)
(* A model of the Context7 tool server: the four tool handlers of          *)
(* src/context7/api.py, the catalog client and header builder of           *)
(* src/context7/core.py, the request schemas of src/context7/schemas.py    *)
(* and the upstream catalog service they call.                             *)
(*                                                                         *)
(* Python values: str is a TLA+ string, int an integer, list a sequence,   *)
(* dict a function from keys to values, and an Optional value is either    *)
(* None (the empty sequence) or Some(v) (the one-element sequence <<v>>).  *)
(***************************************************************************)
EXTENDS Integers, Sequences, FiniteSets, TLC

VARIABLES
    settings_api_key,   \* settings.api_key.get_secret_value()
    pc,                 \* the handler: "idle", "running" (awaiting), "done"
    op,                 \* operation_id of the tool call being handled
    request,            \* the validated request model
    tasks,              \* the coroutines the handler awaits, in creation order
    completed,          \* task indices in the order the tasks finished
    nfinished,          \* gather's count of the done callbacks it has run
    outer,              \* the future the handler awaits (gather's, or the call's)
    sent,               \* upstream requests issued, in the order issued
    outcome,            \* how the handler ended: a response model or an exception
    unit                \* a direct call of a synchronous core function

vars == <<settings_api_key, pc, op, request, tasks, completed, nfinished,
          outer, sent, outcome, unit>>

serverVars == <<settings_api_key, pc, op, request, tasks, completed,
                nfinished, outer, sent, outcome>>

\* The attribute, field and key names of the Python objects modelled below.
\* Every record of the model lists its fields in this order.
AttributeNames ==
    [api_key |-> TRUE, args |-> TRUE, body |-> TRUE, client_ip |-> TRUE,
     description |-> TRUE, detail |-> TRUE, error |-> TRUE, exc |-> TRUE,
     extra |-> TRUE, fn |-> TRUE, headers |-> TRUE, id |-> TRUE,
     iv |-> TRUE, json |-> TRUE, kind |-> TRUE, lib_id |-> TRUE,
     library_id |-> TRUE, library_ids |-> TRUE, library_info |-> TRUE,
     library_infos |-> TRUE, library_name |-> TRUE, library_names |-> TRUE,
     method |-> TRUE, model |-> TRUE, name |-> TRUE, params |-> TRUE,
     query |-> TRUE, req |-> TRUE, resp |-> TRUE, result |-> TRUE,
     results |-> TRUE, ret |-> TRUE, state |-> TRUE, status_code |-> TRUE,
     text |-> TRUE, title |-> TRUE, tokens |-> TRUE, top |-> TRUE,
     topic |-> TRUE, topics |-> TRUE, totalSnippets |-> TRUE,
     trustScore |-> TRUE, type |-> TRUE, url |-> TRUE, value |-> TRUE,
     versions |-> TRUE]

\* The header names the core reads or writes.
HeaderNames == {"Authorization", "X-Context7-Source", "mcp-client-ip"}

----------------------------------------------------------------------------
(* Bounds of the model *)

\* the longest list a batch request carries
MaxBatch == 2

\* the longest result list format_search_results is called with
MaxHits == 2

----------------------------------------------------------------------------
(* Python values *)

None == << >>
Some(v) == <<v>>

\* bool(x) of an Optional[str]: None and "" are falsy
TruthyStr(x) == x # None /\ x[1] # ""

\* bool(d) of an Optional[dict]: None and {} are falsy
TruthyDict(x) == x # None /\ DOMAIN x[1] # {}

\* d.get(k, default)
Get(d, k, default) == IF k \in DOMAIN d THEN d[k] ELSE default

\* d[k] = v on a dict
DictSet(d, k, v) == [x \in DOMAIN d \cup {k} |-> IF x = k THEN v ELSE d[x]]

\* hasattr(obj, name) on a model object
HasAttr(obj, name) == name \in DOMAIN AttributeNames /\ name \in DOMAIN obj

PyMax(a, b) == IF a >= b THEN a ELSE b

\* sep.join(xs)
RECURSIVE Join(_, _)
Join(sep, xs) ==
    IF xs = << >> THEN ""
    ELSE IF Len(xs) = 1 THEN xs[1]
    ELSE xs[1] \o sep \o Join(sep, Tail(xs))

\* repr(xs) of a list of str without quote characters
RECURSIVE QuoteAll(_)
QuoteAll(xs) ==
    IF xs = << >> THEN << >>
    ELSE <<"'" \o xs[1] \o "'">> \o QuoteAll(Tail(xs))

PyListRepr(xs) == "[" \o Join(", ", QuoteAll(xs)) \o "]"

\* s.startswith("/")
StartsWithSlash(s) == Len(s) >= 1 /\ SubSeq(s, 1, 1) = "/"

----------------------------------------------------------------------------
(* settings.py *)

context7_api_base_url == "https://context7.com/api"
minimum_tokens == 1000
default_tokens == 2500

----------------------------------------------------------------------------
(* core.py: encrypt_client_ip and generate_headers *)

\* AES-CBC of the padded address under the configured key with the drawn iv,
\* as hex(iv) ":" hex(ct): the cipher text is a function of key, iv and
\* address, kept symbolic here; the configured key is a valid AES key.
encrypt_client_ip(ip, iv) == iv \o ":" \o "aes(" \o iv \o "," \o ip \o ")"

\* (mutant) generate_headers writing into extra itself, not into a copy
generate_headers_no_copy(client_ip, api_key, extra, iv) ==
    LET h0 == IF TruthyDict(extra) THEN extra[1] ELSE << >>
        h1 == IF TruthyStr(client_ip)
              THEN DictSet(h0, "mcp-client-ip", encrypt_client_ip(client_ip[1], iv))
              ELSE h0
        h2 == IF TruthyStr(api_key)
              THEN DictSet(h1, "Authorization", "Bearer " \o api_key[1])
              ELSE h1
    IN  [extra |-> IF TruthyDict(extra) THEN Some(h2) ELSE extra,
         headers |-> h2]

\* The headers generate_headers returns, and the caller's extra mapping as
\* the call leaves it.  headers starts as extra.copy(), so the two
\* assignments below write to the copy and extra keeps its items.
generate_headers(client_ip, api_key, extra, iv) ==
    LET h0 == IF TruthyDict(extra) THEN extra[1] ELSE << >>
        h1 == IF TruthyStr(client_ip)
              THEN DictSet(h0, "mcp-client-ip", encrypt_client_ip(client_ip[1], iv))
              ELSE h0
        h2 == IF TruthyStr(api_key)
              THEN DictSet(h1, "Authorization", "Bearer " \o api_key[1])
              ELSE h1
    IN  [extra |-> extra, headers |-> h2]

----------------------------------------------------------------------------
(* core.py: search_libraries *)

\* the GET search_libraries issues
SearchRequest(query, client_ip, api_key, iv) ==
    [headers |-> generate_headers(client_ip, api_key, None, iv).headers,
     method  |-> "GET",
     params  |-> [query |-> query],
     url     |-> context7_api_base_url \o "/v1/search"]

\* (mutant) search_libraries decoding the body whatever the status
search_libraries_return_any_status(r) == r.json

\* what search_libraries returns for the upstream response r
search_libraries_return(r) ==
    IF r.status_code = 200
    THEN r.json
    ELSE [error |-> ToString(r.status_code), results |-> << >>]

----------------------------------------------------------------------------
(* core.py: fetch_library_docs *)

\* (mutant) library_id.lstrip("/"): every leading separator stripped
RECURSIVE NormalizeLibraryId_lstrip(_)
NormalizeLibraryId_lstrip(library_id) ==
    IF StartsWithSlash(library_id)
    THEN NormalizeLibraryId_lstrip(Tail(library_id))
    ELSE library_id

NormalizeLibraryId(library_id) ==
    IF StartsWithSlash(library_id) THEN Tail(library_id) ELSE library_id

\* (mutant) the requested budget sent as it is
ClampTokens_unclamped(tokens) == tokens

ClampTokens(tokens) == PyMax(tokens, minimum_tokens)

\* the GET fetch_library_docs issues
FetchRequest(library_id, tokens, topic, client_ip, api_key, iv) ==
    [headers |-> generate_headers(client_ip, api_key,
                     Some([k \in {"X-Context7-Source"} |-> "mcp-server"]),
                     iv).headers,
     method  |-> "GET",
     params  |-> [tokens |-> ToString(ClampTokens(tokens)),
                  topic  |-> topic,
                  type   |-> "txt"],
     url     |-> context7_api_base_url \o "/v1/" \o NormalizeLibraryId(library_id)]

SentinelTexts == {"No content available", "No context data available"}

\* (mutant) fetch_library_docs knowing the first sentinel only
fetch_library_docs_return_one_sentinel(r) ==
    IF r.status_code = 200
    THEN IF r.text = "No content available" THEN None ELSE Some(r.text)
    ELSE None

\* what fetch_library_docs returns for the upstream response r
fetch_library_docs_return(r) ==
    IF r.status_code = 200
    THEN IF r.text \in SentinelTexts THEN None ELSE Some(r.text)
    ELSE None

----------------------------------------------------------------------------
(* core.py: format_search_results *)

\* (mutant) the snippet line for every count that is not negative
FormatHit_snippets_from_zero(r) ==
    LET base == << "- Title: " \o Get(r, "title", ""),
                   "- ID: " \o Get(r, "id", ""),
                   "- Description: " \o Get(r, "description", "") >>
        snip == IF Get(r, "totalSnippets", -1) >= 0
                THEN << "- Code Snippets: " \o ToString(r.totalSnippets) >>
                ELSE << >>
        trust == IF Get(r, "trustScore", 0) # 0
                 THEN << "- Trust Score: " \o ToString(r.trustScore) >>
                 ELSE << >>
        vers == IF Get(r, "versions", << >>) # << >>
                THEN << "- Versions: " \o Join(", ", r.versions) >>
                ELSE << >>
    IN  Join("\n", base \o snip \o trust \o vers)

FormatHit(r) ==
    LET base == << "- Title: " \o Get(r, "title", ""),
                   "- ID: " \o Get(r, "id", ""),
                   "- Description: " \o Get(r, "description", "") >>
        snip == IF Get(r, "totalSnippets", -1) > 0
                THEN << "- Code Snippets: " \o ToString(r.totalSnippets) >>
                ELSE << >>
        trust == IF Get(r, "trustScore", 0) # 0
                 THEN << "- Trust Score: " \o ToString(r.trustScore) >>
                 ELSE << >>
        vers == IF Get(r, "versions", << >>) # << >>
                THEN << "- Versions: " \o Join(", ", r.versions) >>
                ELSE << >>
    IN  Join("\n", base \o snip \o trust \o vers)

RECURSIVE FormatHits(_)
FormatHits(rs) ==
    IF rs = << >> THEN << >> ELSE <<FormatHit(rs[1])>> \o FormatHits(Tail(rs))

format_search_results(resp) ==
    Join("\n----------\n", FormatHits(Get(resp, "results", << >>)))

----------------------------------------------------------------------------
(* exceptions.py, and the exceptions the handlers meet *)

DocumentationNotFoundException ==
    [detail |-> "Documentation not found.", status_code |-> 404,
     type |-> "DocumentationNotFoundException"]

LibraryNotFoundException(message) ==
    [detail |-> message, status_code |-> 404,
     type |-> "LibraryNotFoundException"]

LibraryNotFoundDefault == LibraryNotFoundException("No matching libraries found.")

\* (mutant) a message that names the first library only
LibraryNotFoundForNames_first(library_names) ==
    LibraryNotFoundException("No matching library ids found for names "
                             \o PyListRepr(<<library_names[1]>>))

\* the message resolve_multiple_library_ids._search gives the exception
LibraryNotFoundForNames(library_names) ==
    LibraryNotFoundException("No matching library ids found for names "
                             \o PyListRepr(library_names))

LengthMismatch ==
    [detail |-> "Lengths of library_ids, tokens, and topics must match.",
     status_code |-> 400, type |-> "HTTPException"]

\* request.<name> on a model that declares no such field
AttributeError(model, name) ==
    [detail |-> "'" \o model \o "' object has no attribute '" \o name \o "'",
     type |-> "AttributeError"]

\* httpx raising out of client.get: no response was received
TransportError == [detail |-> "request failed", type |-> "httpx.TransportError"]

----------------------------------------------------------------------------
(* schemas.py: the request models, with the fields each declares *)

ResolveLibraryIDRequest(library_name) == [library_name |-> library_name]

GetLibraryDocsRequest(library_id, tokens, topic) ==
    [library_id |-> library_id, tokens |-> tokens, topic |-> topic]

ResolveMultipleLibraryIDsRequest(library_names) ==
    [library_names |-> library_names]

GetMultipleLibraryDocsRequest(library_id, tokens, topics) ==
    [library_id |-> library_id, tokens |-> tokens, topics |-> topics]

----------------------------------------------------------------------------
(* The inputs the model draws from *)

SeqsUpTo(S, n) == UNION {[1..k -> S] : k \in 0..n}

LibraryNames == {"fastapi", "nosuchlib"}
LibraryIds == {"/tiangolo/fastapi", "tiangolo/fastapi", "//tiangolo/fastapi",
               "/bad/id"}
TokenValues == {500, minimum_tokens, default_tokens}
Topics == {"routing", "x"}
ApiKeys == {"", "ctx7sk-key"}
IVs == {"00", "a7"}

HitFull ==
    [description |-> "Web framework", id |-> "/tiangolo/fastapi",
     title |-> "FastAPI", totalSnippets |-> 12,
     trustScore |-> 9, versions |-> <<"0.115.0", "0.110.0">>]
HitMin ==
    [description |-> "ORM", id |-> "/sqlalchemy/sqlalchemy",
     title |-> "SQLAlchemy"]
HitZero ==
    [description |-> "", id |-> "/encode/starlette", title |-> "Starlette",
     totalSnippets |-> 0, trustScore |-> 0, versions |-> << >>]

\* what the catalog may answer a search with; a success answer may lack the
\* results key and a non-success answer may carry any body
SearchResponses ==
    { [json |-> [results |-> << >>], status_code |-> 200],
      [json |-> [results |-> <<HitFull>>], status_code |-> 200],
      [json |-> [results |-> <<HitMin, HitZero>>], status_code |-> 200],
      [json |-> [error |-> "rate limited"], status_code |-> 200],
      [json |-> [results |-> <<HitMin>>], status_code |-> 404],
      [json |-> [results |-> << >>], status_code |-> 500] }

\* what the catalog may answer a documentation request with
FetchResponses ==
    { [status_code |-> 200, text |-> "# FastAPI routing"],
      [status_code |-> 200, text |-> "No content available"],
      [status_code |-> 200, text |-> "No context data available"],
      [status_code |-> 200, text |-> ""],
      [status_code |-> 404, text |-> "# FastAPI routing"],
      [status_code |-> 500, text |-> "No content available"] }

----------------------------------------------------------------------------
(* api.py: the coroutines a handler awaits *)

Value(v) == [kind |-> "value", value |-> v]
Raised(e) == [exc |-> e, kind |-> "exc"]

\* a coroutine object: body names the coroutine function, args its arguments
Task(body, args) ==
    [args |-> args, body |-> body, req |-> None, resp |-> None,
     result |-> [kind |-> "none"], state |-> "created"]

SearchBodies == {"search_libraries", "_search"}
FetchBodies == {"fetch_library_docs", "_fetch"}

\* (mutant) handlers that pass the caller's address on
TaskRequest_with_client_ip(t, api_key, iv) ==
    IF t.body \in SearchBodies
    THEN SearchRequest(t.args.name, Some("203.0.113.7"), Some(api_key), iv)
    ELSE FetchRequest(t.args.lib_id, t.args.tokens, t.args.top,
                      Some("203.0.113.7"), Some(api_key), iv)

\* the upstream request the coroutine of task t issues: every handler passes
\* client_ip=None and api_key=settings.api_key.get_secret_value()
TaskRequest(t, api_key, iv) ==
    IF t.body \in SearchBodies
    THEN SearchRequest(t.args.name, None, Some(api_key), iv)
    ELSE FetchRequest(t.args.lib_id, t.args.tokens, t.args.top, None,
                      Some(api_key), iv)

\* (mutant) _search that hands an empty result on instead of raising
_search_no_raise(r, req) == Value(format_search_results(search_libraries_return(r)))

\* resolve_multiple_library_ids._search, from the upstream response on
_search(r, req) ==
    LET resp == search_libraries_return(r)
    IN  IF Get(resp, "results", << >>) = << >>
        THEN Raised(LibraryNotFoundForNames(req.library_names))
        ELSE Value(format_search_results(resp))

\* get_multiple_library_docs._fetch, from the upstream response on
_fetch(r, lib_id, top) ==
    LET docs == fetch_library_docs_return(r)
    IN  Value(IF TruthyStr(docs)
              THEN docs[1]
              ELSE "Documentation not found for " \o lib_id
                   \o " with topic '" \o top \o "'.")

\* what the coroutine of task t ends with once the upstream answers r
TaskResult(t, r, req) ==
    CASE t.body = "search_libraries" -> Value(search_libraries_return(r))
      [] t.body = "_search" -> _search(r, req)
      [] t.body = "fetch_library_docs" -> Value(fetch_library_docs_return(r))
      [] t.body = "_fetch" -> _fetch(r, t.args.lib_id, t.args.top)

\* (mutant) the result list in the order the children finished
GatherResults_by_completion(ts, order) ==
    [i \in 1..Len(ts) |-> ts[order[i]].result.value]

\* asyncio.gather's result list: one entry per awaitable, in the order the
\* awaitables were passed, whatever the order they finished in
GatherResults(ts, order) == [i \in 1..Len(ts) |-> ts[i].result.value]

\* (mutant) a gather that hands on the first exception only when the done
\* callback of every child has run
OuterAfter_wait_for_all(out, ts, order, n, res, gathered) ==
    IF out.state # "pending" THEN out
    ELSE IF ~gathered
    THEN IF res.kind = "exc"
         THEN [exc |-> res.exc, state |-> "exception"]
         ELSE [state |-> "result", value |-> res.value]
    ELSE IF n = Len(ts)
    THEN IF \E k \in 1..Len(order) : ts[order[k]].result.kind = "exc"
         THEN LET k == CHOOSE k \in 1..Len(order) :
                          /\ ts[order[k]].result.kind = "exc"
                          /\ \A m \in 1..(k - 1) :
                                 ts[order[m]].result.kind # "exc"
              IN  [exc |-> ts[order[k]].result.exc, state |-> "exception"]
         ELSE [state |-> "result", value |-> GatherResults(ts, order)]
    ELSE out

\* The future the handler awaits, once a child that ended with res is handed
\* on.  gather's _done_callback, the n-th to run: a future already set is
\* left alone; the first exception of a child is set on the outer future at
\* once; the result list is set by the callback of the last of the children.
\* A single awaited coroutine hands its own result or exception on.
OuterAfter(out, ts, order, n, res, gathered) ==
    IF out.state # "pending" THEN out
    ELSE IF res.kind = "exc" THEN [exc |-> res.exc, state |-> "exception"]
    ELSE IF ~gathered THEN [state |-> "result", value |-> res.value]
    ELSE IF n = Len(ts)
         THEN [state |-> "result", value |-> GatherResults(ts, order)]
         ELSE out

Gathered(o) == o \in {"resolve_multiple_library_ids", "get_multiple_library_docs"}

----------------------------------------------------------------------------
(* api.py: the handlers *)

NoOutcome == [kind |-> "none"]
Return(model, value) == [kind |-> "return", model |-> model, value |-> value]
Raise(e) == [exc |-> e, kind |-> "raise"]

Pending == [state |-> "pending"]

NoUnit == [fn |-> "none"]

\* The handler starts awaiting the coroutines ts.
Await(o, req, ts, out) ==
    /\ pc = "idle"
    /\ pc' = "running"
    /\ op' = o
    /\ request' = req
    /\ tasks' = ts
    /\ outer' = out
    /\ UNCHANGED <<settings_api_key, completed, nfinished, sent, outcome, unit>>

\* The handler ends before awaiting anything.
EndAtOnce(o, req, e) ==
    /\ pc = "idle"
    /\ pc' = "done"
    /\ op' = o
    /\ request' = req
    /\ outcome' = Raise(e)
    /\ UNCHANGED <<settings_api_key, tasks, completed, nfinished, outer, sent,
                   unit>>

\* resolve_library_id, up to its await
resolve_library_id ==
    /\ pc = "idle"
    /\ \E name \in LibraryNames :
        Await("resolve_library_id", ResolveLibraryIDRequest(name),
              <<Task("search_libraries", [name |-> name])>>, Pending)

\* get_library_docs, up to its await
get_library_docs ==
    /\ pc = "idle"
    /\ \E id \in LibraryIds, t \in TokenValues, top \in Topics :
        Await("get_library_docs", GetLibraryDocsRequest(id, t, top),
              <<Task("fetch_library_docs", [lib_id |-> id, tokens |-> t, top |-> top])>>,
              Pending)

\* resolve_multiple_library_ids, up to its await of gather; gather of no
\* awaitables is a future that already holds the empty list
resolve_multiple_library_ids ==
    /\ pc = "idle"
    /\ \E names \in SeqsUpTo(LibraryNames, MaxBatch) :
        Await("resolve_multiple_library_ids",
              ResolveMultipleLibraryIDsRequest(names),
              [i \in 1..Len(names) |-> Task("_search", [name |-> names[i]])],
              IF names = << >>
              THEN [state |-> "result", value |-> << >>]
              ELSE Pending)

\* get_multiple_library_docs on the request req, up to its await of gather.
\* The handler reads request.library_ids; a model without that field raises
\* AttributeError on the first read, in the length check.
get_multiple_library_docs_on(req) ==
    IF ~HasAttr(req, "library_ids")
    THEN EndAtOnce("get_multiple_library_docs", req,
                   AttributeError("GetMultipleLibraryDocsRequest", "library_ids"))
    ELSE IF ~(Len(req.library_ids) = Len(req.tokens)
              /\ Len(req.tokens) = Len(req.topics))
    THEN EndAtOnce("get_multiple_library_docs", req, LengthMismatch)
    ELSE Await("get_multiple_library_docs", req,
               [i \in 1..Len(req.library_ids) |->
                   Task("_fetch", [lib_id |-> req.library_ids[i],
                                   tokens |-> req.tokens[i],
                                   top |-> req.topics[i]])],
               IF req.library_ids = << >>
               THEN [state |-> "result", value |-> << >>]
               ELSE Pending)

get_multiple_library_docs ==
    /\ pc = "idle"
    /\ \E ids \in SeqsUpTo(LibraryIds, MaxBatch),
          toks \in SeqsUpTo(TokenValues, MaxBatch),
          tops \in SeqsUpTo(Topics, MaxBatch) :
        get_multiple_library_docs_on(
            GetMultipleLibraryDocsRequest(ids, toks, tops))

\* The coroutine of task i runs up to its await of client.get: the request
\* is built and leaves for the catalog.  Children of gather are not
\* cancelled when a sibling raises, so this may happen after the handler ended.
TaskSend(i) ==
    /\ tasks[i].state = "created"
    /\ \E iv \in IVs :
        LET r == TaskRequest(tasks[i], settings_api_key, iv)
        IN  /\ tasks' = [tasks EXCEPT ![i].state = "awaiting", ![i].req = Some(r)]
            /\ sent' = Append(sent, r)
    /\ UNCHANGED <<settings_api_key, pc, op, request, completed, nfinished,
                   outer, outcome, unit>>

\* The coroutine of task i ends with result res.  A child of gather is a
\* Task of its own: its end only schedules gather's done callback, which
\* runs in a later step of the event loop.  A coroutine the handler awaits
\* directly hands its result to the handler itself.
Finish(i, resp, res) ==
    LET ts == [tasks EXCEPT ![i].state = "finished", ![i].resp = resp,
                            ![i].result = res]
        order == Append(completed, i)
    IN  /\ tasks' = ts
        /\ completed' = order
        /\ outer' = IF Gathered(op)
                    THEN outer
                    ELSE OuterAfter(outer, ts, order, 1, res, FALSE)
        /\ UNCHANGED <<settings_api_key, pc, op, request, nfinished, sent,
                       outcome, unit>>

\* gather's done callback of the next child that ended: callbacks run in
\* the order the children ended, and also after the outer future is set.
_done_callback ==
    /\ Gathered(op)
    /\ nfinished < Len(completed)
    /\ nfinished' = nfinished + 1
    /\ outer' = OuterAfter(outer, tasks, completed, nfinished + 1,
                           tasks[completed[nfinished + 1]].result, TRUE)
    /\ UNCHANGED <<settings_api_key, pc, op, request, tasks, completed, sent,
                   outcome, unit>>

\* The catalog answers the request of task i and the coroutine runs to its end.
TaskRespond(i) ==
    /\ tasks[i].state = "awaiting"
    /\ \E r \in (IF tasks[i].body \in SearchBodies
                 THEN SearchResponses ELSE FetchResponses) :
        Finish(i, Some(r), TaskResult(tasks[i], r, request))

\* client.get of task i raises: no answer arrives.
TaskTransportError(i) ==
    /\ tasks[i].state = "awaiting"
    /\ Finish(i, None, Raised(TransportError))

\* (mutant) resolve_library_id without the check for an empty result list
AfterAwait_no_hit_check(o, v) ==
    CASE o = "resolve_library_id" ->
            Return("ResolveLibraryIDResponse",
                   [library_id |-> format_search_results(v)])
      [] o = "get_library_docs" ->
            IF ~TruthyStr(v)
            THEN Raise(DocumentationNotFoundException)
            ELSE Return("GetLibraryDocsResponse", [library_info |-> v[1]])
      [] o = "resolve_multiple_library_ids" ->
            Return("ResolveMultipleLibraryIDsResponse", [library_ids |-> v])
      [] o = "get_multiple_library_docs" ->
            Return("GetMultipleLibraryDocsResponse", [library_infos |-> v])

\* what the handler does with the value v of the future it awaited
AfterAwait(o, v) ==
    CASE o = "resolve_library_id" ->
            IF Get(v, "results", << >>) = << >>
            THEN Raise(LibraryNotFoundDefault)
            ELSE Return("ResolveLibraryIDResponse",
                        [library_id |-> format_search_results(v)])
      [] o = "get_library_docs" ->
            IF ~TruthyStr(v)
            THEN Raise(DocumentationNotFoundException)
            ELSE Return("GetLibraryDocsResponse", [library_info |-> v[1]])
      [] o = "resolve_multiple_library_ids" ->
            Return("ResolveMultipleLibraryIDsResponse", [library_ids |-> v])
      [] o = "get_multiple_library_docs" ->
            Return("GetMultipleLibraryDocsResponse", [library_infos |-> v])

\* The awaited future is set and the handler runs to its end.
HandlerResume ==
    /\ pc = "running"
    /\ outer.state # "pending"
    /\ pc' = "done"
    /\ outcome' = IF outer.state = "exception"
                  THEN Raise(outer.exc)
                  ELSE AfterAwait(op, outer.value)
    /\ UNCHANGED <<settings_api_key, op, request, tasks, completed, nfinished,
                   outer, sent, unit>>

Init ==
    /\ settings_api_key \in ApiKeys
    /\ pc = "idle"
    /\ op = "none"
    /\ request = << >>
    /\ tasks = << >>
    /\ completed = << >>
    /\ nfinished = 0
    /\ outer = Pending
    /\ sent = << >>
    /\ outcome = NoOutcome
    /\ unit = NoUnit

Next ==
    \/ resolve_library_id
    \/ get_library_docs
    \/ resolve_multiple_library_ids
    \/ get_multiple_library_docs
    \/ \E i \in 1..Len(tasks) : TaskSend(i)
    \/ \E i \in 1..Len(tasks) : TaskRespond(i)
    \/ \E i \in 1..Len(tasks) : TaskTransportError(i)
    \/ _done_callback
    \/ HandlerResume

Spec == Init /\ [][Next]_vars

----------------------------------------------------------------------------
(* Direct calls of the core's synchronous functions, generate_headers and   *)
(* format_search_results, on arguments drawn from small sets.  The          *)
(* coroutines search_libraries and fetch_library_docs issue a request and   *)
(* await its answer: they are the tasks above.                              *)

UnitClientIps == {None, Some(""), Some("203.0.113.7")}
UnitApiKeys == {None, Some(""), Some("ctx7sk-key")}

ExtraHeaderNames == HeaderNames \cup {"X-Request-Id"}
ExtraHeaderValue(k) ==
    CASE k = "Authorization" -> "Basic dXNlcjpwdw=="
      [] k = "X-Context7-Source" -> "mcp-server"
      [] k = "mcp-client-ip" -> "198.51.100.1"
      [] OTHER -> "req-1"

\* None, the empty dict, and every dict over ExtraHeaderNames
UnitExtras ==
    {None} \cup {Some([k \in K |-> ExtraHeaderValue(k)]) :
                    K \in SUBSET ExtraHeaderNames}

\* generate_headers(client_ip, api_key, extra), with the iv it draws
CallGenerateHeaders ==
    /\ unit = NoUnit
    /\ \E client_ip \in UnitClientIps, api_key \in UnitApiKeys,
          extra \in UnitExtras, iv \in IVs :
        unit' = [args |-> [api_key |-> api_key, client_ip |-> client_ip,
                           extra |-> extra, iv |-> iv],
                 fn |-> "generate_headers",
                 ret |-> generate_headers(client_ip, api_key, extra, iv)]
    /\ UNCHANGED serverVars

\* the optional fields of a search hit and the values each is tried with
UnitSnippetCounts == {-1, 0, 3}
UnitTrustScores == {0, 9}
UnitVersions == {<< >>, <<"1.0">>, <<"1.0", "2.0">>}

\* a hit with title, id and description and the optional fields named in K
UnitHit(K, n, s, v) ==
    [k \in {"description", "id", "title"} \cup K |->
        CASE k = "description" -> "Web framework"
          [] k = "id" -> "/tiangolo/fastapi"
          [] k = "title" -> "FastAPI"
          [] k = "totalSnippets" -> n
          [] k = "trustScore" -> s
          [] k = "versions" -> v]

\* every combination of optional fields, and a hit without any field
UnitHits ==
    { UnitHit(K, n, s, v) :
          K \in SUBSET {"totalSnippets", "trustScore", "versions"},
          n \in UnitSnippetCounts, s \in UnitTrustScores,
          v \in UnitVersions }
    \cup { [k \in {} |-> ""] }

\* the dicts format_search_results is called with: a results list, or the
\* body of an answer without the results key
UnitSearchResults ==
    { [results |-> hs] : hs \in SeqsUpTo(UnitHits, MaxHits) }
    \cup { [error |-> "rate limited"] }

\* format_search_results(resp)
CallFormatSearchResults ==
    /\ unit = NoUnit
    /\ \E resp \in UnitSearchResults :
        unit' = [args |-> [resp |-> resp],
                 fn |-> "format_search_results",
                 ret |-> [text |-> format_search_results(resp)]]
    /\ UNCHANGED serverVars

NextUnit ==
    \/ CallGenerateHeaders
    \/ CallFormatSearchResults

SpecUnit == Init /\ [][NextUnit]_vars

----------------------------------------------------------------------------
(* What the claims speak of *)

ResolveMany == "resolve_multiple_library_ids"
FetchMany == "get_multiple_library_docs"

\* the catalog answered the request of task i
Answered(i) == tasks[i].state = "finished" /\ tasks[i].resp # None

\* the search hits the answer r carries: none on a non-success status
UpstreamHits(r) ==
    IF r.status_code = 200 THEN Get(r.json, "results", << >>) ELSE << >>

\* the answer r to a documentation request carries no documentation
UpstreamAbsent(r) ==
    \/ r.status_code # 200
    \/ r.text = "No content available"
    \/ r.text = "No context data available"

\* no coroutine of the batch ended with an exception of the transport
NoTransportError ==
    \A j \in 1..Len(tasks) :
        tasks[j].state = "finished" => tasks[j].resp # None

\* the three lists of a get_multiple_library_docs request have one length
EqualLengths ==
    /\ Len(request.library_id) = Len(request.tokens)
    /\ Len(request.tokens) = Len(request.topics)

NotFoundPlaceholder(id, topic) ==
    "Documentation not found for " \o id \o " with topic '" \o topic \o "'."

----------------------------------------------------------------------------
(* C1..C5: the batch operations *)

\* C1: a get_multiple_library_docs call with three lists of one length N
\* returns a list of length N whose element i is the outcome of the call
\* made for library_ids[i], tokens[i], topics[i], whatever the order in which
\* the N calls completed.
C1_FetchManyInInputOrder ==
    (pc = "done" /\ op = FetchMany /\ EqualLengths /\ NoTransportError) =>
        /\ outcome.kind = "return"
        /\ Len(outcome.value.library_infos) = Len(request.library_id)
        /\ \A i \in 1..Len(request.library_id) :
            /\ tasks[i].args = [lib_id |-> request.library_id[i],
                                tokens |-> request.tokens[i],
                                top |-> request.topics[i]]
            /\ outcome.value.library_infos[i] = tasks[i].result.value

\* C2: a resolve_multiple_library_ids call in which every name gets at least
\* one hit returns a list as long as library_names whose element i is the
\* formatted search result for library_names[i], whatever the order in which
\* the searches completed: the awaited future never holds an exception,
\* holds that list once gather has seen the end of every search, and the
\* handler returns it.
C2_ResolveManyInInputOrder ==
    (op = ResolveMany
     /\ \A i \in 1..Len(tasks) :
            Answered(i) /\ UpstreamHits(tasks[i].resp[1]) # << >>) =>
        /\ Len(tasks) = Len(request.library_names)
        /\ \A i \in 1..Len(tasks) :
            tasks[i].req[1].params.query = request.library_names[i]
        /\ outer.state = (IF nfinished = Len(tasks) THEN "result" ELSE "pending")
        /\ outer.state = "result" =>
            /\ Len(outer.value) = Len(request.library_names)
            /\ \A i \in 1..Len(tasks) :
                outer.value[i] = format_search_results(
                                     [results |-> UpstreamHits(tasks[i].resp[1])])
        /\ pc = "done" =>
            /\ outer.state = "result"
            /\ outcome = Return("ResolveMultipleLibraryIDsResponse",
                                [library_ids |-> outer.value])

\* C2 witness: two names, the second search completed first, and the call
\* returned two different formatted results.
C2_Witness ==
    /\ op = ResolveMany /\ pc = "done"
    /\ completed = <<2, 1>>
    /\ outcome.kind = "return"
    /\ Len(outcome.value.library_ids) = 2
    /\ outcome.value.library_ids[1] # outcome.value.library_ids[2]

\* C3: a resolve_multiple_library_ids call in which some name gets an empty
\* result set ends by raising and never returns a list, full or partial;
\* whatever the other searches returned and in whatever order they
\* completed, the exception is LibraryNotFound.
C3_ResolveManyFailFast ==
    (op = ResolveMany /\ pc = "done"
     /\ \E i \in 1..Len(tasks) :
            Answered(i) /\ UpstreamHits(tasks[i].resp[1]) = << >>) =>
        /\ outcome.kind = "raise"
        /\ NoTransportError =>
            outcome.exc = LibraryNotFoundForNames(request.library_names)

\* C3 witness: ["good", "bad"]: the first search completed first and with
\* hits, the second came back empty, and the call raised LibraryNotFound.
C3_Witness ==
    /\ op = ResolveMany /\ pc = "done"
    /\ completed = <<1, 2>>
    /\ tasks[1].result.kind = "value"
    /\ Answered(2) /\ UpstreamHits(tasks[2].resp[1]) = << >>
    /\ outcome.kind = "raise"
    /\ outcome.exc.type = "LibraryNotFoundException"

\* C4: in a get_multiple_library_docs call with lists of one length, every
\* index whose fetch is absent holds the placeholder built from that index's
\* id and topic, every other index holds the documentation text returned for
\* it, and the call does not raise.
C4_FetchManyBestEffort ==
    (pc = "done" /\ op = FetchMany /\ EqualLengths /\ NoTransportError) =>
        /\ outcome.kind = "return"
        /\ \A i \in 1..Len(request.library_id) :
            outcome.value.library_infos[i] =
                IF UpstreamAbsent(tasks[i].resp[1])
                THEN NotFoundPlaceholder(request.library_id[i],
                                         request.topics[i])
                ELSE tasks[i].resp[1].text

\* C5: a get_multiple_library_docs call whose three lists are not all of one
\* length ends in the validation failure (HTTP 400, "Lengths of library_ids,
\* tokens, and topics must match.") and no upstream call is made.
C5_FetchManyValidatesLengths ==
    (pc = "done" /\ op = FetchMany /\ ~EqualLengths) =>
        /\ outcome = Raise(LengthMismatch)
        /\ sent = << >>

----------------------------------------------------------------------------
(* C6..C10: the catalog client and the header builder *)

\* C6: the tokens parameter of every documentation request sent upstream is
\* the larger of the requested token budget and the configured minimum; a
\* requested value below the minimum is never transmitted.
C6_TokensClampedToMinimum ==
    /\ \A i \in 1..Len(tasks) :
        (tasks[i].body \in FetchBodies /\ tasks[i].req # None) =>
            tasks[i].req[1].params.tokens =
                ToString(IF tasks[i].args.tokens < minimum_tokens
                         THEN minimum_tokens
                         ELSE tasks[i].args.tokens)
    /\ \A k \in 1..Len(sent) :
        "tokens" \in DOMAIN sent[k].params =>
            \A v \in TokenValues :
                v < minimum_tokens => sent[k].params.tokens # ToString(v)

\* C6 witness: a budget below the minimum was requested and the minimum
\* was sent.
C6_Witness ==
    \E i \in 1..Len(tasks) :
        /\ tasks[i].body \in FetchBodies
        /\ tasks[i].args.tokens < minimum_tokens
        /\ tasks[i].req # None
        /\ tasks[i].req[1].params.tokens = ToString(minimum_tokens)
        /\ sent = <<tasks[i].req[1]>>

\* the id without its first character when that is "/", else the id itself
WithoutOneSlash(id) ==
    IF Len(id) > 0 /\ SubSeq(id, 1, 1) = "/" THEN SubSeq(id, 2, Len(id)) ELSE id

\* C7: fetch_library_docs strips exactly one leading "/" from library_id
\* before building the request path: the path requested for "/x" and for
\* "x" is the one path base/v1/x for every x that does not start with "/",
\* an id without a leading "/" goes into the path unchanged, and of two
\* leading "/" one stays.
C7_LibraryIdNormalized ==
    \A i \in 1..Len(tasks) :
        (tasks[i].body \in FetchBodies /\ tasks[i].req # None) =>
            LET id == tasks[i].args.lib_id
                prefix == context7_api_base_url \o "/v1/"
                url == tasks[i].req[1].url
            IN  /\ url = prefix \o WithoutOneSlash(id)
                /\ ~StartsWithSlash(id) => url = prefix \o id
                /\ \A x \in LibraryIds :
                    (~StartsWithSlash(x) /\ id \in {x, "/" \o x}) =>
                        url = prefix \o x

\* C7 witness: a get_library_docs call for "//tiangolo/fastapi" requested
\* the path with one "/" left before the id.
C7_Witness ==
    /\ op = "get_library_docs"
    /\ request.library_id = "//tiangolo/fastapi"
    /\ Len(sent) = 1
    /\ sent[1].url = "https://context7.com/api/v1//tiangolo/fastapi"

\* C8: fetch_library_docs returns None when the upstream status is not 200
\* or the body is exactly "No content available" or "No context data
\* available", and any other success body verbatim; it never returns a
\* sentinel text.
C8_SentinelsMappedToAbsent ==
    \A i \in 1..Len(tasks) :
        (tasks[i].body = "fetch_library_docs" /\ Answered(i)) =>
            LET r == tasks[i].resp[1]
                v == tasks[i].result.value
            IN  /\ tasks[i].result.kind = "value"
                /\ v = IF UpstreamAbsent(r) THEN None ELSE Some(r.text)
                /\ v # Some("No content available")
                /\ v # Some("No context data available")

\* C8 witness: a success answer with the second sentinel body came back and
\* the call returned None.
C8_Witness ==
    \E i \in 1..Len(tasks) :
        /\ tasks[i].body = "fetch_library_docs" /\ Answered(i)
        /\ tasks[i].resp[1].status_code = 200
        /\ tasks[i].resp[1].text = "No context data available"
        /\ tasks[i].result = Value(None)

\* C9: search_libraries never raises on an upstream status: on a status
\* other than 200 it returns an empty results list with the status code in
\* the error field, and on 200 the decoded upstream response unchanged.
C9_SearchAbsorbsStatus ==
    \A i \in 1..Len(tasks) :
        (tasks[i].body = "search_libraries" /\ Answered(i)) =>
            LET r == tasks[i].resp[1]
            IN  /\ tasks[i].result.kind = "value"
                /\ r.status_code = 200 => tasks[i].result.value = r.json
                /\ r.status_code # 200 =>
                    tasks[i].result.value =
                        [error |-> ToString(r.status_code), results |-> << >>]

\* C9 witness: a 404 answer whose body carries a hit came back and the call
\* returned no results and the error "404".
C9_Witness ==
    \E i \in 1..Len(tasks) :
        /\ tasks[i].body = "search_libraries" /\ Answered(i)
        /\ tasks[i].resp[1].status_code = 404
        /\ tasks[i].resp[1].json.results # << >>
        /\ tasks[i].result.value.results = << >>
        /\ tasks[i].result.value.error = "404"

\* an argument that was given and is not empty
Supplied(x) == x # None /\ x[1] # ""

\* the items of the caller's extra mapping
ExtraItems(extra) == IF extra = None THEN << >> ELSE extra[1]

\* C10 as stated: the headers generate_headers returns contain mcp-client-ip
\* iff an address was supplied and Authorization iff a credential was
\* supplied, every extra header is in the result with its value unchanged,
\* and the caller's extra mapping is not modified.
C10_HeadersAsStated ==
    unit.fn = "generate_headers" =>
        LET h == unit.ret.headers
            e == ExtraItems(unit.args.extra)
        IN  /\ "mcp-client-ip" \in DOMAIN h <=> Supplied(unit.args.client_ip)
            /\ "Authorization" \in DOMAIN h <=> Supplied(unit.args.api_key)
            /\ \A k \in DOMAIN e : k \in DOMAIN h /\ h[k] = e[k]
            /\ unit.ret.extra = unit.args.extra

\* C10 amended: the headers contain mcp-client-ip iff an address was
\* supplied or extra carries that header, and Authorization iff a credential
\* was supplied or extra carries that header; every extra header is in the
\* result, with its value unchanged unless it is mcp-client-ip and an
\* address was supplied or Authorization and a credential was supplied, when
\* the generated value replaces it; the caller's extra mapping is not
\* modified.
C10_HeadersMerged ==
    unit.fn = "generate_headers" =>
        LET h == unit.ret.headers
            e == ExtraItems(unit.args.extra)
            ip == unit.args.client_ip
            key == unit.args.api_key
        IN  /\ "mcp-client-ip" \in DOMAIN h <=>
                (Supplied(ip) \/ "mcp-client-ip" \in DOMAIN e)
            /\ "Authorization" \in DOMAIN h <=>
                (Supplied(key) \/ "Authorization" \in DOMAIN e)
            /\ Supplied(key) => h["Authorization"] = "Bearer " \o key[1]
            /\ \A k \in DOMAIN e :
                /\ k \in DOMAIN h
                /\ \/ h[k] = e[k]
                   \/ k = "mcp-client-ip" /\ Supplied(ip)
                   \/ k = "Authorization" /\ Supplied(key)
            /\ unit.ret.extra = unit.args.extra

\* C10 witness: an address and a credential were supplied together with an
\* extra mapping that carries Authorization and X-Request-Id; the result has
\* the bearer credential, the identity header and X-Request-Id as given.
C10_Witness ==
    /\ unit.fn = "generate_headers"
    /\ Supplied(unit.args.client_ip) /\ Supplied(unit.args.api_key)
    /\ unit.args.extra # None
    /\ DOMAIN unit.args.extra[1] = {"Authorization", "X-Request-Id"}
    /\ unit.ret.headers["Authorization"] # unit.args.extra[1]["Authorization"]
    /\ unit.ret.headers["X-Request-Id"] = unit.args.extra[1]["X-Request-Id"]
    /\ "mcp-client-ip" \in DOMAIN unit.ret.headers

----------------------------------------------------------------------------
(* C11..C18: single calls, dispatch, promptness, the formatter, headers *)

\* C11 as stated: a resolve_library_id call whose search was answered raises
\* LibraryNotFound when the search yields no hit and otherwise returns the
\* formatted hits; a get_library_docs call whose fetch was answered raises
\* DocumentationNotFound when the fetch yields None and otherwise returns
\* the documentation text.
C11_SingleCallsAsStated ==
    (pc = "done" /\ Len(tasks) = 1 /\ Answered(1)) =>
        LET r == tasks[1].resp[1]
        IN  /\ op = "resolve_library_id" =>
                outcome = IF UpstreamHits(r) = << >>
                          THEN Raise(LibraryNotFoundDefault)
                          ELSE Return("ResolveLibraryIDResponse",
                                      [library_id |-> format_search_results(
                                           [results |-> UpstreamHits(r)])])
            /\ op = "get_library_docs" =>
                outcome = IF UpstreamAbsent(r)
                          THEN Raise(DocumentationNotFoundException)
                          ELSE Return("GetLibraryDocsResponse",
                                      [library_info |-> r.text])

\* C11 amended: as stated, except that get_library_docs raises
\* DocumentationNotFound also when the fetch yields the empty text, and
\* returns the documentation text only when it is not empty.
C11_SingleCallsNotFound ==
    (pc = "done" /\ Len(tasks) = 1 /\ Answered(1)) =>
        LET r == tasks[1].resp[1]
        IN  /\ op = "resolve_library_id" =>
                outcome = IF UpstreamHits(r) = << >>
                          THEN Raise(LibraryNotFoundDefault)
                          ELSE Return("ResolveLibraryIDResponse",
                                      [library_id |-> format_search_results(
                                           [results |-> UpstreamHits(r)])])
            /\ op = "get_library_docs" =>
                outcome = IF UpstreamAbsent(r) \/ r.text = ""
                          THEN Raise(DocumentationNotFoundException)
                          ELSE Return("GetLibraryDocsResponse",
                                      [library_info |-> r.text])

\* C11 witness: a get_library_docs call whose fetch came back with status
\* 200 and an empty body ended with DocumentationNotFound.
C11_Witness ==
    /\ pc = "done" /\ op = "get_library_docs" /\ Answered(1)
    /\ tasks[1].resp[1].status_code = 200
    /\ tasks[1].resp[1].text = ""
    /\ tasks[1].result = Value(Some(""))
    /\ outcome = Raise(DocumentationNotFoundException)

\* the number of items of the batch the call was made with
BatchSize ==
    CASE op = ResolveMany -> Len(request.library_names)
      [] op = FetchMany -> Len(request.library_id)
      [] OTHER -> 1

\* the coroutines of the call that have issued their upstream request
Dispatched == {i \in 1..Len(tasks) : tasks[i].state # "created"}

\* C12: every search_libraries or fetch_library_docs invocation issues
\* exactly one upstream request, and a call with a valid batch of N items
\* (one of resolve_multiple_library_ids, or one of get_multiple_library_docs
\* with lists of one length) starts N invocations, one per index and with
\* that index's arguments, duplicates included: N requests have gone upstream
\* once all of them have issued theirs.
C12_OneRequestPerIndex ==
    (pc # "idle" /\ (op = FetchMany => EqualLengths)) =>
        /\ Len(tasks) = BatchSize
        /\ Len(sent) = Cardinality(Dispatched)
        /\ \A i \in Dispatched :
            Cardinality({k \in 1..Len(sent) : sent[k] = tasks[i].req[1]}) =
                Cardinality({j \in Dispatched : tasks[j].req = tasks[i].req})
        /\ op = ResolveMany =>
            \A i \in Dispatched :
                tasks[i].req[1].params.query = request.library_names[i]
        /\ op = FetchMany =>
            \A i \in Dispatched :
                /\ tasks[i].req[1].params.topic = request.topics[i]
                /\ tasks[i].req[1].url =
                       context7_api_base_url \o "/v1/"
                           \o NormalizeLibraryId(request.library_id[i])

\* the k-th coroutine to finish is the first one that raised
FirstFailure(k) ==
    /\ tasks[completed[k]].result.kind = "exc"
    /\ \A m \in 1..(k - 1) : tasks[completed[m]].result.kind # "exc"

\* C13: in a resolve_multiple_library_ids call, once a search is seen to
\* come back empty (and no search failed before it) the call resolves to
\* LibraryNotFound without waiting for any other search: gather's done
\* callback for that search can run at once, whether the other searches are
\* still in flight, came back with hits or without, or never come back;
\* from that callback on the awaited future holds LibraryNotFound and the
\* handler can resume at once; when it has resumed the call has raised that
\* LibraryNotFound, which later answers do not change.
C13_FailFastWithoutWaiting ==
    op = ResolveMany =>
        \A k \in 1..Len(completed) :
            (FirstFailure(k) /\ Answered(completed[k])) =>
                /\ UpstreamHits(tasks[completed[k]].resp[1]) = << >>
                /\ nfinished < k =>
                    /\ outer = Pending /\ pc = "running"
                    /\ ENABLED _done_callback
                /\ nfinished >= k =>
                    /\ outer = [exc |-> LibraryNotFoundForNames(
                                            request.library_names),
                                state |-> "exception"]
                    /\ pc = "running" => ENABLED HandlerResume
                    /\ pc = "done" =>
                        outcome = Raise(LibraryNotFoundForNames(
                                            request.library_names))

\* C13 witness: the call has raised LibraryNotFound after one search came
\* back empty while another search is still awaiting its answer.
C13_Witness ==
    /\ op = ResolveMany /\ pc = "done"
    /\ \E i, j \in 1..Len(tasks) :
        /\ completed = <<i>>
        /\ Answered(i) /\ UpstreamHits(tasks[i].resp[1]) = << >>
        /\ tasks[j].state = "awaiting"
    /\ outcome.kind = "raise"
    /\ outcome.exc.type = "LibraryNotFoundException"

\* C14: a get_multiple_library_docs call with lists of one length N starts
\* its N fetches together, returns only when every one of them has produced
\* a value, and does return once every upstream call was answered: it has
\* not ended otherwise.
C14_FetchManyWaitsForAll ==
    (pc # "idle" /\ op = FetchMany /\ EqualLengths) =>
        /\ Len(tasks) = Len(request.library_id)
        /\ (pc = "done" /\ outcome.kind = "return") =>
            \A i \in 1..Len(tasks) :
                tasks[i].state = "finished" /\ tasks[i].result.kind = "value"
        /\ (pc = "done" /\ \A i \in 1..Len(tasks) : Answered(i)) =>
            /\ outcome.kind = "return"
            /\ Len(outcome.value.library_infos) = Len(request.library_id)

\* the failure a resolve_multiple_library_ids call reports for the names it
\* was given
NotFoundForAll(names) ==
    [detail |-> "No matching library ids found for names " \o PyListRepr(names),
     status_code |-> 404,
     type |-> "LibraryNotFoundException"]

\* C15: every LibraryNotFound of a resolve_multiple_library_ids call carries
\* the whole list of names the call was given: the exception of every search
\* that came back empty, the one the awaited future holds and the one the
\* call raises are one value, fixed by the request alone, whichever names
\* failed, however many, and whichever search completed first.
C15_NotFoundNamesAllInputs ==
    op = ResolveMany =>
        /\ \A i \in 1..Len(tasks) :
            (Answered(i) /\ UpstreamHits(tasks[i].resp[1]) = << >>) =>
                tasks[i].result = Raised(NotFoundForAll(request.library_names))
        /\ (outer.state = "exception"
            /\ outer.exc.type = "LibraryNotFoundException") =>
                outer.exc = NotFoundForAll(request.library_names)
        /\ (pc = "done" /\ outcome.kind = "raise"
            /\ outcome.exc.type = "LibraryNotFoundException") =>
                outcome.exc = NotFoundForAll(request.library_names)

\* C15 witness: of ["fastapi", "nosuchlib"] only the second search came back
\* empty, and it completed first; the call raised with both names in the
\* message.
C15_Witness ==
    /\ op = ResolveMany /\ pc = "done"
    /\ request.library_names = <<"fastapi", "nosuchlib">>
    /\ completed = <<2, 1>>
    /\ tasks[1].result.kind = "value"
    /\ Answered(2) /\ UpstreamHits(tasks[2].resp[1]) = << >>
    /\ outcome.kind = "raise"
    /\ outcome.exc.detail =
           "No matching library ids found for names ['fastapi', 'nosuchlib']"

\* hit h has the field k
Has(h, k) == k \in DOMAIN h

\* the text of field k of hit h, empty when the hit lacks the field
FieldText(h, k) == IF Has(h, k) THEN h[k] ELSE ""

\* the versions of h separated by ", "
RECURSIVE CommaJoined(_)
CommaJoined(vs) ==
    IF Len(vs) = 1 THEN vs[1] ELSE vs[1] \o ", " \o CommaJoined(Tail(vs))

\* the block of one hit: the three lines every hit has, then the optional
\* lines, each on a line of its own
ExpectedBlock(h) ==
    "- Title: " \o FieldText(h, "title")
    \o "\n- ID: " \o FieldText(h, "id")
    \o "\n- Description: " \o FieldText(h, "description")
    \o (IF Has(h, "totalSnippets") /\ h.totalSnippets > 0
        THEN "\n- Code Snippets: " \o ToString(h.totalSnippets) ELSE "")
    \o (IF Has(h, "trustScore") /\ h.trustScore # 0
        THEN "\n- Trust Score: " \o ToString(h.trustScore) ELSE "")
    \o (IF Has(h, "versions") /\ Len(h.versions) > 0
        THEN "\n- Versions: " \o CommaJoined(h.versions) ELSE "")

\* the blocks of the hits from the n-th on, each but the last followed by
\* the separator line
RECURSIVE ExpectedFrom(_, _)
ExpectedFrom(hs, n) ==
    IF n > Len(hs) THEN ""
    ELSE IF n = Len(hs) THEN ExpectedBlock(hs[n])
    ELSE ExpectedBlock(hs[n]) \o "\n----------\n" \o ExpectedFrom(hs, n + 1)

\* C16: format_search_results gives a text for every result list of hits
\* with or without their optional fields: per hit a block with the title, id
\* and description lines, the snippet line only for a positive count, the
\* trust line only for a truthy score and the versions line only for a
\* non-empty list; the blocks are joined by the line "----------"; an empty
\* or missing result list gives the empty string, and no other input does.
C16_FormatterTotal ==
    unit.fn = "format_search_results" =>
        LET resp == unit.args.resp
            hs == IF "results" \in DOMAIN resp THEN resp.results ELSE << >>
        IN  /\ unit.ret.text = ExpectedFrom(hs, 1)
            /\ hs = << >> <=> unit.ret.text = ""

\* C16 witness: two hits were formatted, the first with a positive count, a
\* truthy score and two versions, the second with a zero count, a zero score
\* and no versions; the text is the two blocks with the separator between.
C16_Witness ==
    /\ unit.fn = "format_search_results"
    /\ "results" \in DOMAIN unit.args.resp
    /\ unit.args.resp.results =
           << UnitHit({"totalSnippets", "trustScore", "versions"},
                      3, 9, <<"1.0", "2.0">>),
              UnitHit({"totalSnippets", "trustScore", "versions"},
                      0, 0, << >>) >>
    /\ unit.ret.text =
           "- Title: FastAPI\n- ID: /tiangolo/fastapi\n"
           \o "- Description: Web framework\n- Code Snippets: 3\n"
           \o "- Trust Score: 9\n- Versions: 1.0, 2.0\n----------\n"
           \o "- Title: FastAPI\n- ID: /tiangolo/fastapi\n"
           \o "- Description: Web framework"

\* C17: in a get_multiple_library_docs call with lists of one length every
\* index has its outbound call, and when the outbound call of an index is
\* the first to raise (a failure of the transport, not a status code) the
\* whole call fails with that exception: once gather has seen that call end
\* the awaited future holds the exception, and the call ends by raising it,
\* without a list and without a placeholder for the failing index.
C17_FetchManyTransportFailure ==
    (pc # "idle" /\ op = FetchMany /\ EqualLengths) =>
        /\ Len(tasks) = Len(request.library_id)
        /\ \A k \in 1..Len(completed) :
            (FirstFailure(k) /\ ~Answered(completed[k])) =>
                /\ tasks[completed[k]].result = Raised(TransportError)
                /\ nfinished >= k =>
                    outer = [exc |-> TransportError, state |-> "exception"]
                /\ pc = "done" => outcome = Raise(TransportError)

\* C18: every upstream request a tool handler issues is without the
\* mcp-client-ip header, carries Authorization (the bearer form of the
\* configured credential) exactly when the configured credential is not
\* empty, and carries X-Context7-Source exactly when it is a documentation
\* request.
C18_UpstreamHeaders ==
    /\ \A i \in 1..Len(tasks) :
        tasks[i].req # None =>
            LET h == tasks[i].req[1].headers
            IN  /\ "mcp-client-ip" \notin DOMAIN h
                /\ "Authorization" \in DOMAIN h <=> settings_api_key # ""
                /\ settings_api_key # "" =>
                    h["Authorization"] = "Bearer " \o settings_api_key
                /\ "X-Context7-Source" \in DOMAIN h <=>
                    op \in {"get_library_docs", FetchMany}
                /\ "X-Context7-Source" \in DOMAIN h <=>
                    "tokens" \in DOMAIN tasks[i].req[1].params
    /\ \A k \in 1..Len(sent) :
        \E i \in 1..Len(tasks) : tasks[i].req = Some(sent[k])

\* C18 witness: with a credential configured, a get_library_docs call sent a
\* request whose only headers are Authorization, with the bearer form of the
\* credential, and X-Context7-Source.
C18_Witness ==
    /\ op = "get_library_docs" /\ settings_api_key # ""
    /\ Len(sent) = 1 /\ tasks[1].req = Some(sent[1])
    /\ DOMAIN sent[1].headers = {"Authorization", "X-Context7-Source"}
    /\ sent[1].headers["Authorization"] = "Bearer " \o settings_api_key
    /\ sent[1].headers["X-Context7-Source"] = "mcp-server"

====
